---- MODULE Spec2Model ----
(***************************************************************************)
(* Model of internal/backend/compiled/r1c.go: LinearExpression (a Go slice *)
(* of Term) with Clone / Len / Swap / Less, and R1C with its String        *)
(* rendering over a coefficient table.                                     *)
(*                                                                         *)
(* A slice is modelled as the address of its backing array in `heap`; the  *)
(* code never reslices, so length and capacity are the array's length.     *)
(* Indices are 0-based as in the source.  Strings are sequences of         *)
(* one-character strings.                                                  *)
(***************************************************************************)
EXTENDS Integers, Sequences, FiniteSets, TLC

\* ------------------------------------------------------------------ bounds
\* longest LinearExpression drawn for r1c.L
MaxLen == 3
\* longest r1c.L drawn for rendering
MaxRenderLen == 2
\* number of concurrent readers
NReaders == 2

\* --------------------------------------------------------------- Visibility
Unset == 0
Internal == 1
Secret == 2
Public == 3
Virtual == 4
\* Visibility is a uint8: one value outside the five declared constants
BadVis == 5

\* --------------------------------------------------------------------- Term
\* Term: the triple (coefficient id, variable id, visibility)
Term(c, v, vis) == [cid |-> c, vid |-> v, vis |-> vis]
Unpack(t) == <<t.cid, t.vid, t.vis>>
CoeffID(t) == Unpack(t)[1]
VariableID(t) == Unpack(t)[2]
VariableVisibility(t) == Unpack(t)[3]

\* ------------------------------------------------------------------ state
VARIABLES
  heap,    \* backing arrays: address -> sequence of Term
  r1c,     \* the R1C: fields L, R, O, each a slice (an address of heap)
  coeffs,  \* the coefficient table handed to String
  clone,   \* the slice returned by the caller's last Clone (Nil before)
  ret,     \* the sequential caller's last call and what it returned
  rd,      \* per concurrent reader: its invocation, position and locals
  sbb      \* the strings.Builder of each String invocation

vars == <<heap, r1c, coeffs, clone, ret, rd, sbb>>

Nil == 0
\* address of the array a Clone by caller k allocates (1..3 hold L, R, O)
NewArray(k) == 3 + k
Readers == 1..NReaders
Addrs == 1..(3 + NReaders)

\* l[i], 0-based
At(hp, l, i) == hp[l][i + 1]
Indices(hp, l) == 0..(Len(hp[l]) - 1)

\* ------------------------------------------------------- LinearExpression
\* a Clone that returns the receiver's own slice
CloneAlias(hp, l, k) == [heap |-> hp, res |-> l]

\* a Clone whose copy has its arguments reversed: copy(l, res)
CloneCopyReversed(hp, l, k) ==
  LET zeros == [x \in 1..Len(hp[l]) |-> Term(0, 0, Unset)]
  IN [heap |-> [hp EXCEPT ![NewArray(k)] = zeros, ![l] = zeros], res |-> NewArray(k)]

\* Clone by caller k: make a new array, copy, return the new slice
Clone(hp, l, k) ==
  [heap |-> [hp EXCEPT ![NewArray(k)] = hp[l]], res |-> NewArray(k)]

\* Len
LenOf(hp, l) == Len(hp[l])

\* a Swap that assigns one side only: l[i] = l[j]
SwapOverwrite(hp, l, i, j) ==
  [hp EXCEPT ![l] = [@ EXCEPT ![i + 1] = At(hp, l, j)]]

\* Swap: l[i], l[j] = l[j], l[i]
Swap(hp, l, i, j) ==
  [hp EXCEPT ![l] = [@ EXCEPT ![i + 1] = At(hp, l, j), ![j + 1] = At(hp, l, i)]]

\* a Less with the visibility comparison reversed
LessAscVis(hp, l, i, j) ==
  LET a == At(hp, l, i)
      b == At(hp, l, j)
  IN IF a.vis = b.vis THEN a.vid < b.vid ELSE a.vis < b.vis

\* a Less with a non-strict id comparison
LessOrEqual(hp, l, i, j) ==
  LET a == At(hp, l, i)
      b == At(hp, l, j)
  IN IF a.vis = b.vis THEN a.vid <= b.vid ELSE a.vis > b.vis

\* a Less without the id tie-break
LessNoTie(hp, l, i, j) == At(hp, l, i).vis > At(hp, l, j).vis

\* Less
Less(hp, l, i, j) ==
  LET iID == Unpack(At(hp, l, i))[2]
      iVis == Unpack(At(hp, l, i))[3]
      jID == Unpack(At(hp, l, j))[2]
      jVis == Unpack(At(hp, l, j))[3]
  IN IF iVis = jVis THEN iID < jID ELSE iVis > jVis

\* ---------------------------------------------------------------- strings
Digit(d) == <<"0", "1", "2", "3", "4", "5", "6", "7", "8", "9">>[d + 1]

RECURSIVE Digits(_)
Digits(n) == IF n < 10 THEN <<Digit(n)>> ELSE Digits(n \div 10) \o <<Digit(n % 10)>>

\* strconv.Itoa
Itoa(n) == IF n < 0 THEN <<"-">> \o Digits(-n) ELSE Digits(n)

\* (*big.Int).String: decimal, with a leading minus sign when negative
BigIntString(x) == IF x < 0 THEN <<"-">> \o Digits(-x) ELSE Digits(x)

NoPanic == ""
IndexOutOfRange == "index out of range"
NotImplemented == "not implemented"

\* --------------------------------------------------------------- rendering
\* a Term.string whose default case writes a placeholder
TermStringPlaceholder(buf, t, cf) ==
  IF t.cid >= Len(cf)
  THEN [panic |-> IndexOutOfRange, buf |-> buf]
  ELSE LET b1 == buf \o BigIntString(cf[t.cid + 1]) \o <<"*">>
           pre == CASE t.vis = Internal -> "i" [] t.vis = Public -> "p"
                    [] t.vis = Secret -> "s" [] t.vis = Virtual -> "v"
                    [] t.vis = Unset -> "u" [] OTHER -> "?"
       IN [panic |-> NoPanic, buf |-> b1 \o <<pre>> \o Itoa(t.vid)]

\* a Term.string that looks at the visibility before the coefficient
TermStringVisFirst(buf, t, cf) ==
  IF t.vis \notin {Internal, Public, Secret, Virtual, Unset}
  THEN [panic |-> NotImplemented, buf |-> buf]
  ELSE IF t.cid >= Len(cf)
  THEN [panic |-> IndexOutOfRange, buf |-> buf]
  ELSE LET pre == CASE t.vis = Internal -> "i" [] t.vis = Public -> "p"
                    [] t.vis = Secret -> "s" [] t.vis = Virtual -> "v"
                    [] t.vis = Unset -> "u"
       IN [panic |-> NoPanic,
           buf |-> buf \o BigIntString(cf[t.cid + 1]) \o <<"*", pre>> \o Itoa(t.vid)]

\* Term.string: appends to the builder content buf, or panics part-way
TermString(buf, t, cf) ==
  IF CoeffID(t) >= Len(cf)
  THEN [panic |-> IndexOutOfRange, buf |-> buf]
  ELSE LET b1 == buf \o BigIntString(cf[CoeffID(t) + 1]) \o <<"*">>
           vis == VariableVisibility(t)
       IN CASE vis = Internal -> [panic |-> NoPanic, buf |-> b1 \o <<"i">> \o Itoa(VariableID(t))]
            [] vis = Public -> [panic |-> NoPanic, buf |-> b1 \o <<"p">> \o Itoa(VariableID(t))]
            [] vis = Secret -> [panic |-> NoPanic, buf |-> b1 \o <<"s">> \o Itoa(VariableID(t))]
            [] vis = Virtual -> [panic |-> NoPanic, buf |-> b1 \o <<"v">> \o Itoa(VariableID(t))]
            [] vis = Unset -> [panic |-> NoPanic, buf |-> b1 \o <<"u">> \o Itoa(VariableID(t))]
            [] OTHER -> [panic |-> NotImplemented, buf |-> b1]

\* a loop body that writes the separator after every term
LinStringIterTrailing(buf, hp, l, i, cf) ==
  LET r == TermString(buf, At(hp, l, i), cf)
  IN IF r.panic # NoPanic THEN r
     ELSE [panic |-> NoPanic,
           buf |-> IF i < Len(hp[l]) THEN r.buf \o <<" ", "+", " ">> ELSE r.buf]

\* LinearExpression.string: the body of the loop at index i
LinStringIter(buf, hp, l, i, cf) ==
  LET r == TermString(buf, At(hp, l, i), cf)
  IN IF r.panic # NoPanic THEN r
     ELSE [panic |-> NoPanic,
           buf |-> IF i + 1 < Len(hp[l]) THEN r.buf \o <<" ", "+", " ">> ELSE r.buf]

\* R1C.String, one step of it: s is the invocation's position (pc: "start",
\* the section "L"/"R"/"O" being rendered, "done" or "panic"; i: loop index)
StringStep(s, buf, hp, rc, cf) ==
  IF s.pc = "start"
  THEN [pc |-> "L", i |-> 0, panic |-> NoPanic, buf |-> <<"L", "[">>]
  ELSE LET l == rc[s.pc] IN
    IF s.i < Len(hp[l])
    THEN LET r == LinStringIter(buf, hp, l, s.i, cf)
         IN IF r.panic # NoPanic
            THEN [pc |-> "panic", i |-> s.i, panic |-> r.panic, buf |-> r.buf]
            ELSE [pc |-> s.pc, i |-> s.i + 1, panic |-> NoPanic, buf |-> r.buf]
    ELSE CASE s.pc = "L" ->
                [pc |-> "R", i |-> 0, panic |-> NoPanic,
                 buf |-> buf \o <<"]", " ", "*", " ", "R", "[">>]
           [] s.pc = "R" ->
                [pc |-> "O", i |-> 0, panic |-> NoPanic,
                 buf |-> buf \o <<"]", " ", "=", " ", "O", "[">>]
           [] s.pc = "O" ->
                [pc |-> "done", i |-> 0, panic |-> NoPanic, buf |-> buf \o <<"]">>]

StringStart == [pc |-> "start", i |-> 0, panic |-> NoPanic, buf |-> <<>>]

RECURSIVE StringRun(_, _, _, _)
StringRun(s, hp, rc, cf) ==
  IF s.pc \in {"done", "panic"} THEN s
  ELSE StringRun(StringStep(s, s.buf, hp, rc, cf), hp, rc, cf)

\* R1C.String run to completion: what the call hands its caller.  panic is
\* NoPanic when the call returns, and then buf is the returned string;
\* otherwise the call panicked with that value, returned nothing, and buf is
\* what the (local, now lost) builder held.
R1CString(hp, rc, cf) ==
  LET s == StringRun(StringStart, hp, rc, cf)
  IN [panic |-> s.panic, buf |-> s.buf]

\* ------------------------------------------------------------------ inputs
SeqsUpTo(S, n) == UNION {[1..k -> S] : k \in 0..n}

\* terms the ordering is exercised on: every declared visibility with the
\* ids 2 and 5, and two terms with another coefficient id
OrderTerms ==
  {Term(0, v, vis) : v \in {2, 5}, vis \in Unset..Virtual}
    \cup {Term(1, 2, Public), Term(1, 5, Internal)}

\* terms the mutating operations are exercised on: two that differ in the
\* coefficient id alone, and one that differs in visibility and id
MutTerms == {Term(0, 2, Public), Term(1, 2, Public), Term(0, 5, Internal)}

\* terms rendering is exercised on: one per prefix, ids of one and two
\* digits, an undeclared visibility, a coefficient id outside the tables,
\* and both at once
RenderTerms ==
  {Term(0, 1, Public), Term(1, 2, Internal), Term(0, 12, Secret), Term(1, 0, Virtual),
   Term(0, 3, Unset), Term(0, 7, BadVis), Term(2, 1, Public), Term(2, 4, BadVis)}
SideExprs == {<<>>} \cup {<<t>> : t \in RenderTerms}
CoeffTables == {<<1, 1>>, <<-4, 10>>}

\* ------------------------------------------------------------ the caller
Fields == {"L", "R", "O"}
Handles == Fields \cup {"clone"}
Ref(h) == IF h = "clone" THEN clone ELSE r1c[h]

NoCall == [op |-> "none", h |-> "L", i |-> 0, j |-> 0, val |-> 0]
Idle ==
  [pc |-> "idle", op |-> "none", h |-> "L", i |-> 0, j |-> 0,
   ti |-> Term(0, 0, Unset), spc |-> "start", val |-> 0]

InitWith(L, R, O, cf) ==
  /\ heap = [a \in Addrs |-> CASE a = 1 -> L [] a = 2 -> R [] a = 3 -> O [] OTHER -> <<>>]
  /\ r1c = [L |-> 1, R |-> 2, O |-> 3]
  /\ coeffs = cf
  /\ clone = Nil
  /\ ret = NoCall
  /\ rd = [k \in Readers |-> Idle]
  /\ sbb = [k \in Readers |-> <<>>]

\* c := h.Clone()
CallClone(h) ==
  /\ h \in Fields
  /\ LET r == Clone(heap, Ref(h), 1)
     IN /\ heap' = r.heap
        /\ clone' = r.res
        /\ ret' = [op |-> "Clone", h |-> h, i |-> 0, j |-> 0, val |-> r.res]
  /\ UNCHANGED <<r1c, coeffs, rd, sbb>>

\* h.Len()
CallLen(h) ==
  /\ Ref(h) # Nil
  /\ ret' = [op |-> "Len", h |-> h, i |-> 0, j |-> 0, val |-> LenOf(heap, Ref(h))]
  /\ UNCHANGED <<heap, r1c, coeffs, clone, rd, sbb>>

\* h.Swap(i, j), i and j valid indices
CallSwap(h, i, j) ==
  /\ Ref(h) # Nil
  /\ i \in Indices(heap, Ref(h))
  /\ j \in Indices(heap, Ref(h))
  /\ heap' = Swap(heap, Ref(h), i, j)
  /\ ret' = [op |-> "Swap", h |-> h, i |-> i, j |-> j, val |-> 0]
  /\ UNCHANGED <<r1c, coeffs, clone, rd, sbb>>

\* h.Less(i, j), i and j valid indices
CallLess(h, i, j) ==
  /\ Ref(h) # Nil
  /\ i \in Indices(heap, Ref(h))
  /\ j \in Indices(heap, Ref(h))
  /\ ret' = [op |-> "Less", h |-> h, i |-> i, j |-> j, val |-> Less(heap, Ref(h), i, j)]
  /\ UNCHANGED <<heap, r1c, coeffs, clone, rd, sbb>>

\* r1c.String(coeffs)
CallString ==
  /\ ret' = [op |-> "String", h |-> "L", i |-> 0, j |-> 0, val |-> R1CString(heap, r1c, coeffs)]
  /\ UNCHANGED <<heap, r1c, coeffs, clone, rd, sbb>>

Ix == 0..MaxLen

\* ------------------------------------------------ the ordering, on its own
InitOrder ==
  \E L \in SeqsUpTo(OrderTerms, MaxLen) : InitWith(L, <<>>, <<>>, <<1, 1>>)

NextOrder ==
  \/ \E h \in Handles : CallLen(h)
  \/ \E h \in Handles, i \in Ix, j \in Ix : CallLess(h, i, j)

SpecOrder == InitOrder /\ [][NextOrder]_vars

\* ---------------------------------------------------- String, on its own
InitRender ==
  \E L \in SeqsUpTo(RenderTerms, MaxRenderLen), R \in SideExprs, O \in SideExprs,
     cf \in CoeffTables :
    InitWith(L, R, O, cf)

NextRender == CallString

SpecRender == InitRender /\ [][NextRender]_vars

\* ------------------------------------- every operation, one caller at a time
InitMut ==
  \E L \in SeqsUpTo(MutTerms, MaxLen) :
    InitWith(L, <<Term(0, 5, Public), Term(0, 2, Public)>>, <<Term(1, 2, Internal)>>, <<1, 1>>)

Next ==
  \/ \E h \in Handles : CallClone(h)
  \/ \E h \in Handles : CallLen(h)
  \/ \E h \in Handles, i \in Ix, j \in Ix : CallSwap(h, i, j)
  \/ \E h \in Handles, i \in Ix, j \in Ix : CallLess(h, i, j)
  \/ CallString

Spec == InitMut /\ [][Next]_vars

\* ------------------------------------------- readers running concurrently
\* Each reader makes one invocation on the shared R1C and coefficient table,
\* one access to shared memory per step.

\* a String whose builder is one package-level variable
SharedBuilder(k) == 1

\* the builder of reader k's String: a local of the invocation
Builder(k) == k

\* Len: reads the length
RdLen(k, h) ==
  /\ rd[k].pc = "idle"
  /\ rd' = [rd EXCEPT ![k] = [@ EXCEPT !.pc = "done", !.op = "Len", !.h = h,
                                      !.val = LenOf(heap, r1c[h])]]
  /\ UNCHANGED <<heap, r1c, coeffs, clone, ret, sbb>>

\* Less, first half: l[i].Unpack()
RdLessI(k, h, i, j) ==
  /\ rd[k].pc = "idle"
  /\ i \in Indices(heap, r1c[h])
  /\ j \in Indices(heap, r1c[h])
  /\ rd' = [rd EXCEPT ![k] = [@ EXCEPT !.pc = "less", !.op = "Less", !.h = h,
                                      !.i = i, !.j = j, !.ti = At(heap, r1c[h], i)]]
  /\ UNCHANGED <<heap, r1c, coeffs, clone, ret, sbb>>

\* Less, second half: l[j].Unpack() and the comparison
RdLessJ(k) ==
  /\ rd[k].pc = "less"
  /\ LET tj == At(heap, r1c[rd[k].h], rd[k].j)
     IN rd' = [rd EXCEPT ![k] = [@ EXCEPT !.pc = "done",
                  !.val = Less([x \in {1} |-> <<rd[k].ti, tj>>], 1, 0, 1)]]
  /\ UNCHANGED <<heap, r1c, coeffs, clone, ret, sbb>>

\* Clone: make(LinearExpression, len(l))
RdCloneMake(k, h) ==
  /\ rd[k].pc = "idle"
  /\ heap' = [heap EXCEPT ![NewArray(k)] =
                [x \in 1..Len(heap[r1c[h]]) |-> Term(0, 0, Unset)]]
  /\ rd' = [rd EXCEPT ![k] = [@ EXCEPT !.pc = "clone", !.op = "Clone", !.h = h, !.i = 0]]
  /\ UNCHANGED <<r1c, coeffs, clone, ret, sbb>>

\* Clone: copy(res, l), one element per step, then return res
RdCloneCopy(k) ==
  /\ rd[k].pc = "clone"
  /\ LET l == r1c[rd[k].h]
         i == rd[k].i
     IN IF i < Len(heap[l])
        THEN /\ heap' = [heap EXCEPT ![NewArray(k)][i + 1] = At(heap, l, i)]
             /\ rd' = [rd EXCEPT ![k].i = i + 1]
        ELSE /\ rd' = [rd EXCEPT ![k] = [@ EXCEPT !.pc = "done", !.val = NewArray(k)]]
             /\ UNCHANGED heap
  /\ UNCHANGED <<r1c, coeffs, clone, ret, sbb>>

\* String: one step of it on the invocation's builder; the last step is
\* return sbb.String(), or the panic
RdString(k) ==
  /\ rd[k].pc \in {"idle", "string"}
  /\ LET b == Builder(k)
         r == StringStep([pc |-> rd[k].spc, i |-> rd[k].i], sbb[b], heap, r1c, coeffs)
     IN /\ sbb' = [sbb EXCEPT ![b] = r.buf]
        /\ rd' = [rd EXCEPT ![k] =
                    [@ EXCEPT !.op = "String", !.spc = r.pc, !.i = r.i,
                              !.pc = IF r.pc \in {"done", "panic"} THEN "done" ELSE "string",
                              !.val = IF r.pc \in {"done", "panic"}
                                      THEN [panic |-> r.panic, buf |-> r.buf] ELSE 0]]
  /\ UNCHANGED <<heap, r1c, coeffs, clone, ret>>

ConcR1Cs ==
  {[L |-> <<Term(0, 1, Public), Term(1, 2, Internal)>>, R |-> <<Term(0, 1, Public)>>,
    O |-> <<Term(1, 2, Internal)>>],
   [L |-> <<>>, R |-> <<Term(1, 5, Secret), Term(1, 2, Secret)>>, O |-> <<Term(0, 7, BadVis)>>],
   [L |-> <<Term(0, 3, Unset)>>, R |-> <<Term(2, 1, Public)>>, O |-> <<>>]}

InitConc == \E c \in ConcR1Cs : InitWith(c.L, c.R, c.O, <<1, 1>>)

NextConc ==
  \E k \in Readers :
    \/ \E h \in Fields : RdLen(k, h)
    \/ \E h \in Fields, i \in Ix, j \in Ix : RdLessI(k, h, i, j)
    \/ RdLessJ(k)
    \/ \E h \in Fields : RdCloneMake(k, h)
    \/ RdCloneCopy(k)
    \/ RdString(k)

SpecConc == InitConc /\ [][NextConc]_vars

\* ================================================================ claims
Range(q) == {q[x] : x \in DOMAIN q}
Count(q, t) == Cardinality({x \in DOMAIN q : q[x] = t})
SameMultiset(p, q) ==
  /\ Len(p) = Len(q)
  /\ \A t \in Range(p) \cup Range(q) : Count(p, t) = Count(q, t)
Sorted(hp, l) ==
  \A i \in Indices(hp, l), j \in Indices(hp, l) : i < j => ~Less(hp, l, j, i)

\* the priority a visibility has in the canonical order
PrioOf(v) ==
  CASE v = Virtual -> 4 [] v = Public -> 3 [] v = Secret -> 2
    [] v = Internal -> 1 [] v = Unset -> 0
RanksBefore(a, b) ==
  \/ PrioOf(a.vis) > PrioOf(b.vis)
  \/ a.vis = b.vis /\ a.vid < b.vid

C2_LessStrictOrder ==
  LET l == r1c.L
      I == Indices(heap, l)
  IN /\ \A i \in I : ~Less(heap, l, i, i)
     /\ \A i \in I, j \in I : ~(Less(heap, l, i, j) /\ Less(heap, l, j, i))
     /\ \A i \in I, j \in I, k \in I :
          (Less(heap, l, i, j) /\ Less(heap, l, j, k)) => Less(heap, l, i, k)
     /\ ret.op = "Less" =>
          /\ ret.i = ret.j => ret.val = FALSE
          /\ ret.val = TRUE => ~Less(heap, Ref(ret.h), ret.j, ret.i)

C2_Witness ==
  /\ Len(heap[r1c.L]) = 3
  /\ Less(heap, r1c.L, 0, 1)
  /\ Less(heap, r1c.L, 1, 2)
  /\ At(heap, r1c.L, 0).vis = At(heap, r1c.L, 1).vis
  /\ At(heap, r1c.L, 1).vis # At(heap, r1c.L, 2).vis
  /\ ret = [op |-> "Less", h |-> "L", i |-> 0, j |-> 2, val |-> TRUE]

\* C3 as stated: two arrangements of one multiset of terms that are both
\* sorted with respect to Less are the same sequence, coefficient ids
\* included.
C3_SortedArrangementsIdentical ==
  (/\ clone # Nil
   /\ SameMultiset(heap[clone], heap[r1c.L])
   /\ Sorted(heap, clone)
   /\ Sorted(heap, r1c.L))
    => heap[clone] = heap[r1c.L]

\* C3 amended: two sorted arrangements of one multiset agree position by
\* position in visibility and variable id, and of two terms that differ in
\* visibility or variable id one ranks strictly before the other.
C3_SortedArrangementsAgreeOnKey ==
  /\ (/\ clone # Nil
      /\ SameMultiset(heap[clone], heap[r1c.L])
      /\ Sorted(heap, clone)
      /\ Sorted(heap, r1c.L))
       => \A k \in Indices(heap, clone) :
            /\ At(heap, clone, k).vis = At(heap, r1c.L, k).vis
            /\ At(heap, clone, k).vid = At(heap, r1c.L, k).vid
  /\ \A h \in Fields : \A i \in Indices(heap, r1c[h]), j \in Indices(heap, r1c[h]) :
       LET a == At(heap, r1c[h], i)
           b == At(heap, r1c[h], j)
       IN (a.vis # b.vis \/ a.vid # b.vid)
            => (Less(heap, r1c[h], i, j) \/ Less(heap, r1c[h], j, i))

C3_Witness ==
  /\ clone # Nil
  /\ ret.op = "Swap"
  /\ Len(heap[clone]) = 3
  /\ SameMultiset(heap[clone], heap[r1c.L])
  /\ Sorted(heap, clone)
  /\ Sorted(heap, r1c.L)
  /\ heap[clone] # heap[r1c.L]
  /\ At(heap, clone, 0).vis # At(heap, clone, 2).vis

\* C4: Clone returns a slice of the same length holding the same Term at
\* every index and leaves its receiver as it was; a Swap on the clone
\* changes none of L, R, O, and a Swap on L, R or O does not change the
\* clone.
C4_CloneIndependent ==
  [][/\ ret'.op = "Clone" =>
          LET src == r1c[ret'.h]
          IN /\ clone' # src
             /\ Len(heap'[clone']) = Len(heap[src])
             /\ \A i \in Indices(heap, src) : At(heap', clone', i) = At(heap, src, i)
             /\ heap'[src] = heap[src]
     /\ (ret'.op = "Swap" /\ ret'.h = "clone") =>
          \A h \in Fields : heap'[r1c[h]] = heap[r1c[h]]
     /\ (ret'.op = "Swap" /\ ret'.h # "clone" /\ clone # Nil) =>
          heap'[clone] = heap[clone]
    ]_vars

C4_Witness ==
  /\ clone # Nil
  /\ ret.op = "Swap"
  /\ ret.h = "clone"
  /\ ret.i # ret.j
  /\ Len(heap[clone]) = 3
  /\ SameMultiset(heap[clone], heap[r1c.L])
  /\ At(heap, clone, ret.i) # At(heap, r1c.L, ret.i)

\* C8 as stated: no operation changes the terms held in L, R or O.
C8_NoOperationMutates ==
  [][\A h \in Fields : heap'[r1c[h]] = heap[r1c[h]]]_vars

\* C8 amended: Clone, Len, Less and String never change the terms held in
\* L, R or O, nor does a Swap on a clone; Swap on L, R or O is a mutation
\* that exchanges the two terms in place.
C8_OnlySwapMutates ==
  [][/\ ret'.op # "Swap" => \A h \in Fields : heap'[r1c[h]] = heap[r1c[h]]
     /\ (ret'.op = "Swap" /\ ret'.h = "clone") =>
          \A h \in Fields : heap'[r1c[h]] = heap[r1c[h]]
     /\ (ret'.op = "Swap" /\ ret'.h # "clone") =>
          /\ At(heap', r1c[ret'.h], ret'.i) = At(heap, r1c[ret'.h], ret'.j)
          /\ At(heap', r1c[ret'.h], ret'.j) = At(heap, r1c[ret'.h], ret'.i)
          /\ \A h \in Fields \ {ret'.h} : heap'[r1c[h]] = heap[r1c[h]]
    ]_vars

C8_Witness ==
  /\ ret.op = "Swap"
  /\ ret.h = "R"
  /\ ret.i # ret.j
  /\ heap[r1c.R] = <<Term(0, 2, Public), Term(0, 5, Public)>>

\* C10: Swap(i, j) exchanges the terms at i and j and leaves every other
\* position and every other array alone; Swap(i, i) changes nothing; a
\* second Swap(i, j) restores the sequence; length and multiset of terms
\* are kept.
C10_SwapPermutes ==
  [][ret'.op = "Swap" =>
       LET l == Ref(ret'.h)
           i == ret'.i
           j == ret'.j
       IN /\ At(heap', l, i) = At(heap, l, j)
          /\ At(heap', l, j) = At(heap, l, i)
          /\ \A k \in Indices(heap, l) \ {i, j} : At(heap', l, k) = At(heap, l, k)
          /\ \A a \in Addrs \ {l} : heap'[a] = heap[a]
          /\ i = j => heap' = heap
          /\ Swap(heap', l, i, j) = heap
          /\ Len(heap'[l]) = Len(heap[l])
          /\ SameMultiset(heap'[l], heap[l])
    ]_vars

C10_Witness ==
  /\ ret.op = "Swap"
  /\ ret.h = "L"
  /\ ret.i = 0
  /\ ret.j = 2
  /\ Len(heap[r1c.L]) = 3
  /\ At(heap, r1c.L, 0) = Term(0, 5, Internal)
  /\ At(heap, r1c.L, 1) = Term(1, 2, Public)
  /\ At(heap, r1c.L, 2) = Term(0, 2, Public)

\* ---------------------------------------------------------------- String
Declared == {Unset, Internal, Secret, Public, Virtual}
\* the terms of the R1C in the order String visits them
Flat == heap[r1c.L] \o heap[r1c.R] \o heap[r1c.O]
BadVisAt(k) == Flat[k].vis \notin Declared
NoCoeffAt(k) == Flat[k].cid >= Len(coeffs)
Fails == {k \in DOMAIN Flat : BadVisAt(k) \/ NoCoeffAt(k)}
FirstFail == CHOOSE k \in Fails : \A m \in Fails : k <= m
CountIn(q, S) == Cardinality({x \in DOMAIN q : q[x] \in S})
PrefixLetters == {"i", "p", "s", "v", "u"}

\* decimal notation of an integer of up to three digits, digit by digit
DecNat(n) ==
  IF n < 10 THEN <<Digit(n)>>
  ELSE IF n < 100 THEN <<Digit(n \div 10), Digit(n % 10)>>
  ELSE <<Digit(n \div 100), Digit((n \div 10) % 10), Digit(n % 10)>>
Dec(n) == IF n < 0 THEN <<"-">> \o DecNat(0 - n) ELSE DecNat(n)
PrefixOf(v) ==
  CASE v = Internal -> "i" [] v = Public -> "p" [] v = Secret -> "s"
    [] v = Virtual -> "v" [] v = Unset -> "u"
TermText(t, cf) == Dec(cf[t.cid + 1]) \o <<"*", PrefixOf(t.vis)>> \o Dec(t.vid)
RECURSIVE Join(_, _)
Join(texts, sep) ==
  IF texts = <<>> THEN <<>>
  ELSE IF Len(texts) = 1 THEN texts[1]
  ELSE texts[1] \o sep \o Join(Tail(texts), sep)
Lin(e, cf) == Join([k \in 1..Len(e) |-> TermText(e[k], cf)], <<" ", "+", " ">>)
Separators(e) == IF Len(e) = 0 THEN 0 ELSE Len(e) - 1

\* C5: when every term has a declared visibility and a coefficient id inside
\* the table, String returns "L[" lin(L) "] * R[" lin(R) "] = O[" lin(O) "]",
\* lin(e) being the terms of e in stored order, each
\* <decimal coefficient>*<prefix><decimal variable id>, joined by " + " with
\* len(e)-1 separators and none leading or trailing, empty for an empty e;
\* table [1,1], L=R=[(0,1,Public)], O=[(1,2,Internal)] gives
\* "L[1*p1] * R[1*p1] = O[1*i2]".
C5_StringFormat ==
  (ret.op = "String" /\ Fails = {}) =>
    /\ ret.val.panic = NoPanic
    /\ ret.val.buf =
         <<"L", "[">> \o Lin(heap[r1c.L], coeffs)
           \o <<"]", " ", "*", " ", "R", "[">> \o Lin(heap[r1c.R], coeffs)
           \o <<"]", " ", "=", " ", "O", "[">> \o Lin(heap[r1c.O], coeffs)
           \o <<"]">>
    /\ CountIn(ret.val.buf, {"+"}) =
         Separators(heap[r1c.L]) + Separators(heap[r1c.R]) + Separators(heap[r1c.O])
    /\ (/\ coeffs = <<1, 1>>
        /\ heap[r1c.L] = <<Term(0, 1, Public)>>
        /\ heap[r1c.R] = <<Term(0, 1, Public)>>
        /\ heap[r1c.O] = <<Term(1, 2, Internal)>>)
         => ret.val.buf =
              <<"L", "[", "1", "*", "p", "1", "]", " ", "*", " ",
                "R", "[", "1", "*", "p", "1", "]", " ", "=", " ",
                "O", "[", "1", "*", "i", "2", "]">>

C5_Witness ==
  /\ ret.op = "String"
  /\ coeffs = <<-4, 10>>
  /\ heap[r1c.L] = <<Term(0, 12, Secret), Term(1, 0, Virtual)>>
  /\ heap[r1c.R] = <<>>
  /\ heap[r1c.O] = <<Term(0, 3, Unset)>>
  /\ ret.val.panic = NoPanic
  /\ ret.val.buf =
       <<"L", "[", "-", "4", "*", "s", "1", "2", " ", "+", " ", "1", "0", "*", "v", "0", "]",
         " ", "*", " ", "R", "[", "]", " ", "=", " ", "O", "[", "-", "4", "*", "u", "3", "]">>

\* C6 as stated: String on an R1C holding a term of undeclared visibility,
\* in L, R or O, fails with the invalid-visibility panic and returns no
\* string.
C6_BadVisibilityAlwaysInvalidVisibility ==
  (ret.op = "String" /\ \E k \in DOMAIN Flat : BadVisAt(k)) =>
    ret.val.panic = NotImplemented

\* C6 amended: String on an R1C holding a term of undeclared visibility, in
\* L, R or O, never returns a string and never writes a prefix or
\* placeholder for such a term; it fails with the invalid-visibility panic
\* when the first term that cannot be rendered has its coefficient id inside
\* the table, and with the index-out-of-range panic when it has not.
C6_BadVisibilityNeverRendered ==
  (ret.op = "String" /\ \E k \in DOMAIN Flat : BadVisAt(k)) =>
    /\ ret.val.panic # NoPanic
    /\ ret.val.panic = IF NoCoeffAt(FirstFail) THEN IndexOutOfRange ELSE NotImplemented
    /\ ret.val.panic = NotImplemented =>
         /\ BadVisAt(FirstFail)
         /\ ret.val.buf[Len(ret.val.buf)] = "*"
    /\ CountIn(ret.val.buf, PrefixLetters) = FirstFail - 1
    /\ CountIn(ret.val.buf, {"?"}) = 0

C6_Witness ==
  /\ ret.op = "String"
  /\ heap[r1c.L] = <<Term(0, 1, Public), Term(1, 2, Internal)>>
  /\ heap[r1c.R] = <<Term(0, 3, Unset)>>
  /\ heap[r1c.O] = <<Term(0, 7, BadVis)>>
  /\ coeffs = <<1, 1>>
  /\ ret.val.panic = NotImplemented
  /\ ret.val.buf =
       <<"L", "[", "1", "*", "p", "1", " ", "+", " ", "1", "*", "i", "2", "]",
         " ", "*", " ", "R", "[", "1", "*", "u", "3", "]", " ", "=", " ", "O", "[", "1", "*">>

\* C7 as stated: when String meets a term whose coefficient id has no entry
\* in the table, the call does not panic: it hands its caller an error.
C7_MissingCoefficientIsReturnedError ==
  (ret.op = "String" /\ Fails # {} /\ NoCoeffAt(FirstFail)) =>
    ret.val.panic = NoPanic

\* C7 amended: when String meets a term whose coefficient id has no entry in
\* the table, the call panics with the index-out-of-range run-time error at
\* the table lookup, before anything is written for that term; it is a
\* panic like the invalid-visibility one, told apart by its value only, and
\* no string is returned.
C7_MissingCoefficientPanics ==
  (ret.op = "String" /\ Fails # {} /\ NoCoeffAt(FirstFail)) =>
    /\ ret.val.panic = IndexOutOfRange
    /\ ret.val.panic # NotImplemented
    /\ CountIn(ret.val.buf, {"*"}) =
         FirstFail - 1 + (IF FirstFail > Len(heap[r1c.L]) THEN 1 ELSE 0)
    /\ ret.val.buf[Len(ret.val.buf)] \in {"[", " "}

C7_Witness ==
  /\ ret.op = "String"
  /\ heap[r1c.L] = <<Term(0, 1, Public), Term(2, 4, BadVis)>>
  /\ coeffs = <<1, 1>>
  /\ ret.val.panic = IndexOutOfRange
  /\ ret.val.buf = <<"L", "[", "1", "*", "p", "1", " ", "+", " ">>

\* ------------------------------------------------------------- concurrency
\* C9: under every interleaving of readers' steps, a reader's Len, Less,
\* Clone or String returns what the call returns when run alone on the
\* shared R1C and table, and no step changes the shared terms or the table.
C9_ReadersDoNotInterfere ==
  /\ [](\A k \in Readers :
          rd[k].pc = "done" =>
            CASE rd[k].op = "Len" -> rd[k].val = LenOf(heap, r1c[rd[k].h])
              [] rd[k].op = "Less" ->
                   rd[k].val = Less(heap, r1c[rd[k].h], rd[k].i, rd[k].j)
              [] rd[k].op = "Clone" ->
                   LET alone == Clone(heap, r1c[rd[k].h], k)
                   IN /\ rd[k].val = alone.res
                      /\ heap[rd[k].val] = alone.heap[alone.res]
              [] rd[k].op = "String" -> rd[k].val = R1CString(heap, r1c, coeffs))
  /\ [][/\ \A h \in Fields : heap'[r1c[h]] = heap[r1c[h]]
        /\ r1c' = r1c
        /\ coeffs' = coeffs]_vars

C9_Witness ==
  /\ rd[1].pc = "done"
  /\ rd[1].op = "String"
  /\ rd[1].val.panic = NoPanic
  /\ rd[2].pc = "clone"
  /\ rd[2].h = "L"
  /\ rd[2].i = 1
  /\ heap[NewArray(2)] = <<Term(0, 1, Public), Term(0, 0, Unset)>>

====
